---- MODULE Spec2Model ----
(***************************************************************************)
(* EuroPython ep-matrix: the Synapse password provider EpconAuthProvider   *)
(* (epcon_auth_provider.py), the third-party rules module SuperRulesSet    *)
(* (epmatrix/__init__.py) and the homeserver collaborators they call.      *)
(*                                                                         *)
(* A login is one call of check_3pid_auth.  Every await of the coroutine   *)
(* is one step of the model, so that two logins may interleave exactly     *)
(* where the reactor may switch between them.                              *)
(***************************************************************************)
EXTENDS Integers, Sequences, FiniteSets, TLC

(***************************************************************************)
(* Bounds of the model.                                                    *)
(***************************************************************************)
\* Logins (check_3pid_auth calls) started in one behaviour.
MaxLogins == 3
\* Collaborator calls that fail for a reason outside the model (a database
\* error, a timeout).  Failures that follow from the state (an unknown
\* alias, a taken user name, ...) are not counted.
MaxFaults == 1
\* Tickets of a profile handed to get_rooms_for_user, and how often its
\* tickets are rearranged.
MaxTickets == 2
MaxRearrangements == 1

(***************************************************************************)
(* Module constants, epcon_auth_provider.py lines 13-39.                   *)
(***************************************************************************)
HOMESERVER_NAME == "europython.eu"

DEFAULT_ROOMS ==
    << <<"#info-desk:europython.eu", TRUE>>,
       <<"#hallway:europython.eu", FALSE>>,
       <<"#announcements:europython.eu", TRUE>>,
       <<"#staff:europython.eu", FALSE>>,
       <<"#speakers:europython.eu", FALSE>>,
       <<"#coc:europython.eu", FALSE>>,
       <<"#track1:europython.eu", FALSE>>,
       <<"#track2:europython.eu", FALSE>>,
       <<"#track3:europython.eu", FALSE>>,
       <<"#track4:europython.eu", FALSE>>,
       <<"#sprints:europython.eu", TRUE>> >>

\* Seeded fault: a room outside DEFAULT_ROOMS is among the default ones.
JOIN_DEFAULT_WithLobby ==
    << "#info-desk:europython.eu", "#sprints:europython.eu", "#coc:europython.eu",
       "#lobby:europython.eu" >>

JOIN_DEFAULT ==
    << "#info-desk:europython.eu", "#sprints:europython.eu", "#coc:europython.eu" >>

JOIN_CONFERENCE ==
    << "#track1:europython.eu", "#track2:europython.eu", "#track3:europython.eu",
       "#track4:europython.eu", "#hallway:europython.eu" >>

JOIN_SPEAKER == << "#speakers:europython.eu" >>

JOIN_STAFF == << "#staff:europython.eu" >>

(***************************************************************************)
(* Sequence helpers.                                                       *)
(***************************************************************************)
Range(s) == { s[i] : i \in 1..Len(s) }

Reverse(s) == [ i \in 1..Len(s) |-> s[Len(s) + 1 - i] ]

RECURSIVE Flatten(_)
Flatten(ss) == IF ss = << >> THEN << >> ELSE Head(ss) \o Flatten(Tail(ss))

(***************************************************************************)
(* Text.  A string is a sequence of characters; a character is written as  *)
(* a short token.  "e'" is U+00E9 (e with acute), "E'" is U+00C9, "i'" is  *)
(* U+00ED, "I'" is U+00CD, "ss" is U+00DF (sharp s), "'" alone is the       *)
(* combining acute accent U+0301.                                          *)
(***************************************************************************)
AsciiChars ==
    { "a", "d", "e", "i", "j", "m", "o", "s", "z", "1", ".",
      "A", "D", "E", "I", "J", "M", "O", "S", "Z" }

\* str.lower() on one character.
LowerChar(c) ==
    CASE c = "A" -> "a" [] c = "D" -> "d" [] c = "E" -> "e" [] c = "I" -> "i"
      [] c = "J" -> "j" [] c = "M" -> "m" [] c = "O" -> "o" [] c = "S" -> "s"
      [] c = "Z" -> "z" [] c = "E'" -> "e'" [] c = "I'" -> "i'"
      [] OTHER -> c

\* Seeded fault: the case of the names is kept.
lowerKeepsCase(text) == text

lower(text) == [ i \in 1..Len(text) |-> LowerChar(text[i]) ]

\* unicodedata.normalize('NFD', c): the canonical decomposition.
NFDChar(c) ==
    CASE c = "e'" -> << "e", "'" >> [] c = "E'" -> << "E", "'" >>
      [] c = "i'" -> << "i", "'" >> [] c = "I'" -> << "I", "'" >>
      [] OTHER -> << c >>

normalizeNFD(text) == Flatten([ i \in 1..Len(text) |-> NFDChar(text[i]) ])

\* .encode('ascii', 'ignore'): characters outside ASCII are dropped.
IsAscii(c) == c \in AsciiChars

encodeAsciiIgnore(text) == SelectSeq(text, IsAscii)

strip_accents(text) == encodeAsciiIgnore(normalizeNFD(text))

(***************************************************************************)
(* The room policy, get_rooms_for_user.                                    *)
(***************************************************************************)
\* Seeded fault: TRPP is not known as a sprint fare code.
SprintFareCodesWithoutTRPP == { "TRPC" }

SprintFareCodes == { "TRPC", "TRPP" }

CombinedFareCodes == { "TRCC", "TRCP", "TRSC", "TRSP" }

\* Seeded fault: a ticket of any other fare code counts as a sprint ticket.
TicketRoomsOtherwiseDefault(ticket) ==
    IF ticket.fare_code \in CombinedFareCodes
    THEN JOIN_DEFAULT \o JOIN_CONFERENCE ELSE JOIN_DEFAULT

\* What one ticket appends to rooms_to_join (the body of the for loop).
TicketRooms(ticket) ==
    (IF ticket.fare_code \in SprintFareCodes THEN JOIN_DEFAULT ELSE << >>)
    \o (IF ticket.fare_code \in CombinedFareCodes
        THEN JOIN_DEFAULT \o JOIN_CONFERENCE ELSE << >>)

\* Seeded fault: the loop returns after the first ticket.
ExtendForFirstTicket(rooms_to_join, tickets) ==
    IF tickets = << >> THEN rooms_to_join
    ELSE rooms_to_join \o TicketRooms(Head(tickets))

RECURSIVE ExtendForTickets(_, _)
ExtendForTickets(rooms_to_join, tickets) ==
    IF tickets = << >> THEN rooms_to_join
    ELSE ExtendForTickets(rooms_to_join \o TicketRooms(Head(tickets)), Tail(tickets))

\* Seeded fault: the staff room is left out.
StaffRoomsWithoutStaff == JOIN_DEFAULT \o JOIN_CONFERENCE \o JOIN_SPEAKER

StaffRooms == JOIN_DEFAULT \o JOIN_CONFERENCE \o JOIN_SPEAKER \o JOIN_STAFF

\* The list the function accumulates before it returns.
rooms_to_join_list(epcon_data) ==
    IF epcon_data.is_staff THEN StaffRooms
    ELSE ExtendForTickets(IF epcon_data.is_speaker THEN JOIN_SPEAKER ELSE << >>,
                          epcon_data.tickets)

\* The aliases the caller iterates over (a list for staff, a set otherwise).
get_rooms_for_user(epcon_data) == Range(rooms_to_join_list(epcon_data))

\* The order of "for room_alias in rooms_to_join": the list's own order for
\* staff; for the set of everybody else the order is the interpreter's, here
\* the order of DEFAULT_ROOMS or its reverse.
AliasOrder == [ i \in 1..Len(DEFAULT_ROOMS) |-> DEFAULT_ROOMS[i][1] ]

IterationOrders(epcon_data) ==
    IF epcon_data.is_staff THEN { rooms_to_join_list(epcon_data) }
    ELSE LET InTarget(a) == a \in get_rooms_for_user(epcon_data)
             s == SelectSeq(AliasOrder, InTarget)
         IN  { s, Reverse(s) }

(***************************************************************************)
(* Identity: get_local_part and the account handler's qualified user id.   *)
(***************************************************************************)
\* f"{first_name}.{last_name}.{username}".lower(), accents stripped.
get_local_part(epcon_data) ==
    strip_accents(lower(epcon_data.first_name \o << "." >> \o epcon_data.last_name
                        \o << "." >> \o epcon_data.username))

\* account_handler.get_qualified_user_id(localpart): "@localpart:server".
get_qualified_user_id(localpart) ==
    << "@" >> \o localpart \o << ":", HOMESERVER_NAME >>

\* config.admin_user, the account allowed to trigger the bootstrap.
admin_user == << "@", "a", ".", "d", ".", "m", ":", "europython.eu" >>

None == << >>

(***************************************************************************)
(* What the external identity endpoint may answer.                         *)
(***************************************************************************)
Mediums == { "email", "msisdn" }

\* post_json_get_json raises HttpResponseException on a non-2xx answer; any
\* other failure (a timeout, a body that is no JSON) raises something else.
TransportFailures == { "HttpResponseException", "RequestTimedOutError" }

ErrorBody == [ error |-> "invalid", message |-> "Wrong email or password" ]

EmptyBody == << >>

Ticket(fare_code) == [ fare_code |-> fare_code ]

People ==
    { [ email |-> "admin@europython.eu", first_name |-> << "A" >>,
        last_name |-> << "D" >>, username |-> << "m" >> ],
      [ email |-> "jose@example.com", first_name |-> << "J", "o", "s", "e'" >>,
        last_name |-> << "D", "i'", "a", "z" >>, username |-> << "j", "d", "1" >> ],
      [ email |-> "jd@example.org", first_name |-> << "j", "o", "s", "e" >>,
        last_name |-> << "d", "i", "a", "z" >>, username |-> << "j", "d", "1" >> ] }

\* The entitlements the endpoint reports in a login: <<is_staff, is_speaker,
\* tickets>>.  "TRXX" is a fare code the room policy does not know.
Entitlements ==
    { << TRUE, FALSE, << Ticket("TRCC") >> >>,
      << FALSE, TRUE, << Ticket("TRPC") >> >>,
      << FALSE, FALSE, << Ticket("TRCC") >> >>,
      << FALSE, FALSE, << Ticket("TRXX") >> >> }

Profile(who, is_staff, is_speaker, tickets) ==
    [ email |-> who.email, first_name |-> who.first_name,
      last_name |-> who.last_name, username |-> who.username,
      is_staff |-> is_staff, is_speaker |-> is_speaker, tickets |-> tickets ]

\* A profile the endpoint sent without its "tickets" field.
WithoutTickets(who, is_staff, is_speaker) ==
    [ email |-> who.email, first_name |-> who.first_name,
      last_name |-> who.last_name, username |-> who.username,
      is_staff |-> is_staff, is_speaker |-> is_speaker ]

Bodies ==
    { ErrorBody, EmptyBody }
    \cup { Profile(w, e[1], e[2], e[3]) : w \in People, e \in Entitlements }
    \cup { Profile(w, st, sp, << >>) : w \in People, st \in BOOLEAN, sp \in BOOLEAN }
    \cup { WithoutTickets(w, st, sp) : w \in People, st \in BOOLEAN, sp \in BOOLEAN }

(***************************************************************************)
(* State.                                                                  *)
(***************************************************************************)
VARIABLES
    accounts,   \* the homeserver's accounts: localpart -> registration data
    directory,  \* the room directory: alias -> room id
    rooms,      \* the rooms: room id -> [preset, creator]
    joined,     \* pairs <<user id, room id>>: the user is a member of the room
    invited,    \* pairs <<user id, room id>>: the user holds an invite
    faults,     \* collaborator calls that failed for an outside reason
    lg,         \* the logins: login -> the coroutine's position and locals
    prev,       \* what the login before the running one did (history)
    registrations,  \* localpart -> how each register_user call ended (history)
    policy,         \* one application of get_rooms_for_user: its input and output
    power_levels,   \* room id -> the content of the room's m.room.power_levels
    run,            \* one run of set_power_level_on_all_rooms.py
    setting         \* the invocations of set_user_room_power_level

world == << accounts, directory, rooms, joined, invited >>

history == << prev, registrations >>

\* What the provider's coroutines have no part in.
elsewhere == << policy, power_levels, run, setting >>

vars ==
    << accounts, directory, rooms, joined, invited, faults, lg, prev, registrations,
       policy, power_levels, run, setting >>

Logins == 1..MaxLogins

NoError == [ type |-> "none", code |-> 0, errcode |-> "" ]

Pending == [ kind |-> "pending", value |-> None, error |-> NoError ]

Return(value) == [ kind |-> "return", value |-> value, error |-> NoError ]

Raise(error) == [ kind |-> "raise", value |-> None, error |-> error ]

\* SynapseError(code=400, errcode="no_tickets_found", ...), line 161.
NoTicketsError == [ type |-> "SynapseError", code |-> 400, errcode |-> "no_tickets_found" ]

\* e.to_synapse_error() for an HttpResponseException (line 228); any other
\* exception of the HTTP client leaves auth_with_epcon as it is.
TransportError(exc) ==
    IF exc = "HttpResponseException"
    THEN [ type |-> "ProxiedRequestError", code |-> 500, errcode |-> "M_UNKNOWN" ]
    ELSE [ type |-> exc, code |-> 0, errcode |-> "" ]

\* An error a collaborator raised.
CollaboratorError(op) == [ type |-> "Exception", code |-> 0, errcode |-> op ]

IdleLogin ==
    [ pc |-> "idle", medium |-> "", http |-> "", reply |-> EmptyBody,
      epcon_data |-> EmptyBody, localpart |-> None, user_id |-> None, i |-> 0,
      room_ids |-> {},
      todo |-> << >>, room_id |-> None, result |-> Pending, trace |-> << >> ]

\* A login that is over and no longer looked at.
ForgottenLogin == [ IdleLogin EXCEPT !.pc = "forgotten" ]

\* The calls of a trace with the given name and outcome.
Calls(trace, op, ok) ==
    { trace[k] : k \in { j \in 1..Len(trace) : trace[j].op = op /\ trace[j].ok = ok } }

\* Whether the login reached the loop over its target rooms.
Reconciled(login) == Calls(login.trace, "get_rooms_for_user", TRUE) # {}

\* What is kept of a login once the next one starts: the account, its target
\* rooms and the rooms the login joined.
Summary(login) ==
    [ user_id |-> login.user_id,
      rooms_to_join |-> IF Reconciled(login) THEN get_rooms_for_user(login.epcon_data)
                        ELSE {},
      reconciled |-> Reconciled(login),
      applied |-> { c.arg : c \in Calls(login.trace, "join", TRUE) } ]

NoLogin == [ user_id |-> None, rooms_to_join |-> {}, reconciled |-> FALSE, applied |-> {} ]

\* get_rooms_for_user is not under study.
NoPolicy ==
    [ pc |-> "none", epcon_data |-> EmptyBody, rooms |-> {}, earlier |-> {},
      rearranged |-> 0 ]

\* No run of set_power_level_on_all_rooms.py.
NoRun ==
    [ pc |-> "none", usernames |-> << >>, power_level |-> 0, force |-> FALSE,
      from_csv |-> << >>, room_ids |-> << >>, i |-> 0, result |-> Pending ]

\* Only the provider is looked at.
ProviderOnly ==
    /\ policy = NoPolicy
    /\ power_levels = << >>
    /\ run = NoRun
    /\ setting = << >>

Init ==
    /\ accounts = << >>
    /\ directory = << >>
    /\ rooms = << >>
    /\ joined = {}
    /\ invited = {}
    /\ faults = 0
    /\ lg = [ p \in Logins |-> IdleLogin ]
    /\ prev = NoLogin
    /\ registrations = << >>
    /\ ProviderOnly

\* One collaborator call in the trace of a login.
Op(op, by, arg, ok) == [ op |-> op, by |-> by, arg |-> arg, ok |-> ok ]

Log(login, op, by, arg, ok) ==
    [ login EXCEPT !.trace = Append(@, Op(op, by, arg, ok)) ]

\* The coroutine ends: it returns or raises.
Finish(login, result) == [ login EXCEPT !.pc = "done", !.result = result ]

(***************************************************************************)
(* The homeserver collaborators, as the provider calls them.               *)
(***************************************************************************)
\* account_handler.check_user_exists(user_id).
check_user_exists(user_id) ==
    \E localpart \in DOMAIN accounts : get_qualified_user_id(localpart) = user_id

\* auth.is_server_admin(user): the admin flag the account was registered with.
is_server_admin(user_id) ==
    \E localpart \in DOMAIN accounts :
        /\ get_qualified_user_id(localpart) = user_id
        /\ accounts[localpart].admin

\* SuperRulesSet.on_create_room: only direct chats, or rooms of a server admin.
on_create_room(config, is_requester_admin) ==
    (IF "is_direct" \in DOMAIN config THEN config.is_direct ELSE FALSE)
    \/ is_requester_admin

\* The config create_epcon_rooms passes for one room of DEFAULT_ROOMS.
stub_config(room_alias_name, public) ==
    [ preset |-> IF public THEN "public_chat" ELSE "private_chat",
      room_alias_name |-> room_alias_name ]

\* The id the homeserver gives the room created for an alias.
RoomIdFor(room_alias_name) == << "!", room_alias_name >>

\* room_creation_handler.create_room succeeds: the alias is free and the
\* third-party rules allow it.
CanCreateRoom(requester, config) ==
    /\ config.room_alias_name \notin DOMAIN directory
    /\ on_create_room(config, is_server_admin(requester))

\* room_member_handler.update_membership is allowed by the room's state.
CanUpdateMembership(requester, target, room_id, action) ==
    CASE action = "invite" ->
            /\ << requester, room_id >> \in joined
            /\ << target, room_id >> \notin joined
      [] action = "join" ->
            /\ requester = target
            /\ \/ rooms[room_id].preset = "public_chat"
               \/ << target, room_id >> \in invited
               \/ << target, room_id >> \in joined
      [] action = "leave" ->
            << target, room_id >> \in joined \cup invited
      [] OTHER -> FALSE

JoinedAfter(target, room_id, action) ==
    CASE action = "join" -> joined \cup { << target, room_id >> }
      [] action = "leave" -> joined \ { << target, room_id >> }
      [] OTHER -> joined

InvitedAfter(target, room_id, action) ==
    CASE action = "invite" -> invited \cup { << target, room_id >> }
      [] OTHER -> invited \ { << target, room_id >> }

\* store.get_rooms_for_user(user_id): the rooms the user has joined.
store_get_rooms_for_user(user_id) == { m[2] : m \in { x \in joined : x[1] = user_id } }

(***************************************************************************)
(* EpconAuthProvider.  One action per await of check_3pid_auth and of the  *)
(* coroutines it calls.                                                    *)
(***************************************************************************)
\* An outside failure of the collaborator call this step makes.
Fault == faults < MaxFaults /\ faults' = faults + 1

\* "if not epcon_data" (line 152): False and the empty dict are falsy.
NotEpconData(epcon_data) == DOMAIN epcon_data = {}

\* Seeded faults of the ticket test: the empty list, or the missing field,
\* is let through.
NoTicketsMissingFieldOnly(epcon_data) == "tickets" \notin DOMAIN epcon_data

NoTicketsEmptyListOnly(epcon_data) ==
    "tickets" \in DOMAIN epcon_data /\ epcon_data.tickets = << >>

\* "tickets = epcon_data.get('tickets', None); if not tickets" (lines 158-159).
NoTickets(epcon_data) ==
    \/ "tickets" \notin DOMAIN epcon_data
    \/ epcon_data.tickets = << >>

\* "return None" of a failed authentication (line 154).
AuthFailedResult == Return(None)

\* Seeded fault: a profile without tickets ends like a failed authentication.
NoTicketsReturnsNone == Return(None)

\* "raise SynapseError(... no_tickets_found ...)" (line 161).
NoTicketsResult == Raise(NoTicketsError)

\* Seeded fault: the account is looked up by its localpart.
IsExistingUserByLocalpart(user_id, localpart) == check_user_exists(localpart)

\* "if await self.account_handler.check_user_exists(user_id)" (line 213).
IsExistingUser(user_id, localpart) == check_user_exists(user_id)

\* Seeded fault: the localpart is returned for an account that exists.
ExistingUserIdIsLocalpart(user_id, localpart) == localpart

\* "return user_id" when the account exists (line 216).
ExistingUserId(user_id, localpart) == user_id

\* Seeded fault: no except around _apply_user_policies.
PolicyErrorRaises(user_id, error) == Raise(error)

\* The except around _apply_user_policies (lines 164-169): the error is
\* logged and the login returns the user id.
PolicyErrorResult(user_id, error) == Return(user_id)

\* Seeded faults of the membership test: never true, or inverted.
AlreadyMemberNever(room_id, room_ids) == FALSE

AlreadyMemberInverted(room_id, room_ids) == room_id \notin room_ids

\* "if room_id.to_string() in room_ids" (line 183).
AlreadyMember(room_id, room_ids) == room_id \in room_ids

\* Seeded fault: the try is around the loop, an error ends it.
AfterRoomErrorAborts(todo) == << >>

\* Seeded fault: the room that failed is tried again.
AfterRoomErrorRetries(todo) == todo

\* The except inside the loop (lines 201-202): the loop goes on with the
\* next alias.
AfterRoomError(todo) == Tail(todo)

\* action=Membership.INVITE (line 190) and action=Membership.JOIN (line 198).
InviteAction == "invite"

\* Seeded fault: every medium is taken for an email.
NotEmailNever(medium) == FALSE

\* "if medium != 'email'" (line 145).
NotEmail(medium) == medium # "email"

\* Seeded faults of the admin test: every account, or no account, is the admin.
IsAdminUserAlways(user_id) == TRUE

IsAdminUserNever(user_id) == FALSE

\* "if user_id == self.admin_user" (line 173).
IsAdminUser(user_id) == user_id = admin_user

\* Seeded fault: the second update_membership leaves the room.
JoinActionLeaves == "leave"

JoinAction == "join"

\* Seeded fault: the forced join is requested by the admin account.
JoinRequesterIsAdmin(user_id) == admin_user

\* requester=create_requester(user_id) of the forced join (line 195).
JoinRequester(user_id) == user_id

\* check_3pid_auth is called (lines 133-148).  Logins start in the order of
\* their numbers.
Call(p) ==
    /\ lg[p].pc = "idle"
    /\ \A q \in 1..(p - 1) : lg[q].pc # "idle"
    /\ \E medium \in Mediums :
         lg' = [ q \in Logins |->
                   IF q = p
                   THEN IF NotEmail(medium)
                        THEN Finish([ lg[p] EXCEPT !.medium = medium ], Return(None))
                        ELSE [ lg[p] EXCEPT !.medium = medium, !.pc = "auth_with_epcon" ]
                   ELSE IF lg[q].pc = "done" THEN ForgottenLogin
                   ELSE lg[q] ]
    /\ prev' = IF p > 1 /\ lg[p - 1].pc = "done" THEN Summary(lg[p - 1]) ELSE prev
    /\ UNCHANGED << world, faults, registrations, elsewhere >>

\* The login starts while no other login is running.
CallQuiet(p) ==
    /\ \A q \in Logins : lg[q].pc \in { "idle", "done", "forgotten" }
    /\ Call(p)

\* auth_with_epcon (lines 223-233) and what check_3pid_auth does with its
\* result up to the next await (lines 150-163): _get_or_create_userid computes
\* the localpart (line 211) before it awaits check_user_exists.
AuthWithEpcon(p) ==
    /\ lg[p].pc = "auth_with_epcon"
    /\ \/ \E exc \in TransportFailures :
            lg' = [ lg EXCEPT ![p] =
                      Finish(Log([ @ EXCEPT !.http = exc ],
                                 "post_json_get_json", None, None, FALSE),
                             Raise(TransportError(exc))) ]
       \/ \E body \in Bodies :
            LET epcon_data == IF "error" \in DOMAIN body THEN EmptyBody ELSE body
                got == Log([ lg[p] EXCEPT !.http = "ok", !.reply = body,
                                          !.epcon_data = epcon_data ],
                           "post_json_get_json", None, None, TRUE)
            IN  lg' = [ lg EXCEPT ![p] =
                          IF NotEpconData(epcon_data) THEN Finish(got, AuthFailedResult)
                          ELSE IF NoTickets(epcon_data) THEN Finish(got, NoTicketsResult)
                          ELSE [ got EXCEPT !.pc = "check_user_exists",
                                            !.localpart = get_local_part(epcon_data) ] ]
    /\ UNCHANGED << world, faults, history, elsewhere >>

\* _get_or_create_userid returned user_id; _apply_user_policies starts
\* (lines 163-165, 171-176).
Resolved(login, user_id) ==
    [ login EXCEPT !.user_id = user_id,
                   !.pc = IF IsAdminUser(user_id) THEN "create_epcon_rooms"
                          ELSE "get_rooms_for_user" ]

\* _get_or_create_userid from the qualified user id up to what follows
\* check_user_exists (lines 212-217).
CheckUserExists(p) ==
    LET localpart == lg[p].localpart
        user_id == get_qualified_user_id(localpart)
    IN  /\ lg[p].pc = "check_user_exists"
        /\ \/ /\ Fault
              /\ lg' = [ lg EXCEPT ![p] =
                           Finish(Log(@, "check_user_exists", None, user_id, FALSE),
                                  Raise(CollaboratorError("check_user_exists"))) ]
           \/ /\ UNCHANGED faults
              /\ lg' = [ lg EXCEPT ![p] =
                           IF IsExistingUser(user_id, localpart)
                           THEN Resolved(Log(@, "check_user_exists", None, user_id, TRUE),
                                         ExistingUserId(user_id, localpart))
                           ELSE [ Log(@, "check_user_exists", None, user_id, TRUE)
                                    EXCEPT !.pc = "register_user" ] ]
        /\ UNCHANGED << world, history, elsewhere >>

\* Seeded fault: an error of register_user is swallowed and the login goes on
\* with the qualified id of the localpart.
RegisterFailedGoesOn(login, error) ==
    Resolved(login, get_qualified_user_id(login.localpart))

\* An error of register_user leaves _get_or_create_userid and check_3pid_auth
\* (lines 220, 163): nothing catches it.
RegisterFailed(login, error) == Finish(login, Raise(error))

\* Seeded fault: every account is registered without the admin flag.
RegistrationNeverAdmin(epcon_data) ==
    [ default_display_name |->
          epcon_data.first_name \o << " " >> \o epcon_data.last_name,
      bind_emails |-> << epcon_data.email >>,
      admin |-> FALSE ]

\* The keyword arguments of register_user next to localpart (lines 240-242).
Registration(epcon_data) ==
    [ default_display_name |->
          epcon_data.first_name \o << " " >> \o epcon_data.last_name,
      bind_emails |-> << epcon_data.email >>,
      admin |-> epcon_data.is_staff ]

\* The history of register_user calls with one more call.
Registered(localpart, outcome) ==
    (localpart :> Append(IF localpart \in DOMAIN registrations
                         THEN registrations[localpart] ELSE << >>, outcome))
    @@ registrations

\* register_user (lines 219-221, 235-244).  Line 236 computes the localpart
\* again, from the same epcon_data: it is the value of line 211.  The
\* registration handler refuses a localpart that is taken.
RegisterUser(p) ==
    LET epcon_data == lg[p].epcon_data
        localpart == lg[p].localpart
    IN  /\ lg[p].pc = "register_user"
        /\ \/ /\ Fault
              /\ lg' = [ lg EXCEPT ![p] =
                           RegisterFailed(Log(@, "register_user", None, localpart, FALSE),
                                          CollaboratorError("register_user")) ]
              /\ registrations' = Registered(localpart, "fault")
              /\ UNCHANGED accounts
           \/ /\ UNCHANGED faults
              /\ IF localpart \in DOMAIN accounts
                 THEN /\ lg' = [ lg EXCEPT ![p] =
                                   RegisterFailed(Log(@, "register_user", None, localpart, FALSE),
                                                  CollaboratorError("register_user")) ]
                      /\ registrations' = Registered(localpart, "taken")
                      /\ UNCHANGED accounts
                 ELSE /\ registrations' = Registered(localpart, "ok")
                      /\ accounts' = (localpart :> Registration(epcon_data)) @@ accounts
                      /\ lg' = [ lg EXCEPT ![p] =
                                   Resolved(Log(@, "register_user", None, localpart, TRUE),
                                            get_qualified_user_id(localpart)) ]
        /\ UNCHANGED << directory, rooms, joined, invited, prev, elsewhere >>

\* create_epcon_rooms up to the loop (lines 91-100): the bootstrap runs when
\* the admin account exists.
CreateEpconRooms(p) ==
    /\ lg[p].pc = "create_epcon_rooms"
    /\ \/ /\ Fault
          /\ lg' = [ lg EXCEPT ![p] =
                       Finish(Log(@, "check_user_exists", None, admin_user, FALSE),
                              PolicyErrorResult(@.user_id,
                                                CollaboratorError("check_user_exists"))) ]
       \/ /\ UNCHANGED faults
          /\ lg' = [ lg EXCEPT ![p] =
                       IF check_user_exists(admin_user)
                       THEN [ Log(@, "check_user_exists", None, admin_user, TRUE)
                                EXCEPT !.pc = "create_room", !.i = 1 ]
                       ELSE [ Log(@, "check_user_exists", None, admin_user, TRUE)
                                EXCEPT !.pc = "get_rooms_for_user" ] ]
    /\ UNCHANGED << world, history, elsewhere >>

\* The loop of create_epcon_rooms goes on with the next room, or ends
\* (lines 101, 115-116).
NextRoom(login) ==
    IF login.i = Len(DEFAULT_ROOMS)
    THEN [ login EXCEPT !.pc = "get_rooms_for_user", !.i = 0 ]
    ELSE [ login EXCEPT !.i = @ + 1 ]

\* Seeded fault: the try is around the loop, an error ends the bootstrap.
AfterCreateRoomErrorAborts(login) ==
    [ login EXCEPT !.pc = "get_rooms_for_user", !.i = 0 ]

\* The except inside the loop of create_epcon_rooms (lines 115-116): the
\* error is logged and the loop goes on.
AfterCreateRoomError(login) == NextRoom(login)

\* One pass of the loop of create_epcon_rooms (lines 101-116).  The creator
\* of a room is a member of it.
CreateRoom(p) ==
    LET room_alias_name == DEFAULT_ROOMS[lg[p].i][1]
        public == DEFAULT_ROOMS[lg[p].i][2]
        config == stub_config(room_alias_name, public)
        room_id == RoomIdFor(room_alias_name)
    IN  /\ lg[p].pc = "create_room"
        /\ \/ /\ Fault
              /\ lg' = [ lg EXCEPT ![p] =
                           AfterCreateRoomError(Log(@, "create_room", admin_user,
                                                    << room_alias_name >>, FALSE)) ]
              /\ UNCHANGED << directory, rooms, joined >>
           \/ /\ UNCHANGED faults
              /\ IF CanCreateRoom(admin_user, config)
                 THEN /\ directory' = (room_alias_name :> room_id) @@ directory
                      /\ rooms' = (room_id :> [ preset |-> config.preset,
                                                creator |-> admin_user ]) @@ rooms
                      /\ joined' = joined \cup { << admin_user, room_id >> }
                      /\ lg' = [ lg EXCEPT ![p] =
                                   NextRoom(Log(@, "create_room", admin_user,
                                                << room_alias_name >>, TRUE)) ]
                 ELSE /\ lg' = [ lg EXCEPT ![p] =
                                   AfterCreateRoomError(Log(@, "create_room", admin_user,
                                                            << room_alias_name >>, FALSE)) ]
                      /\ UNCHANGED << directory, rooms, joined >>
        /\ UNCHANGED << accounts, invited, history, elsewhere >>

\* The loop of _apply_user_policies goes on with the rest of the aliases, or
\* the coroutine returns and check_3pid_auth returns user_id (lines 179, 168-169).
NextAlias(login, todo) ==
    IF todo = << >>
    THEN Finish([ login EXCEPT !.todo = << >>, !.room_id = None ], Return(login.user_id))
    ELSE [ login EXCEPT !.todo = todo, !.room_id = None, !.pc = "lookup_room_alias" ]

\* store.get_rooms_for_user and get_rooms_for_user (lines 175-179).
GetRoomsForUser(p) ==
    /\ lg[p].pc = "get_rooms_for_user"
    /\ \/ /\ Fault
          /\ lg' = [ lg EXCEPT ![p] =
                       Finish(Log(@, "get_rooms_for_user", None, @.user_id, FALSE),
                              PolicyErrorResult(@.user_id,
                                                CollaboratorError("get_rooms_for_user"))) ]
       \/ /\ UNCHANGED faults
          /\ \E order \in IterationOrders(lg[p].epcon_data) :
               lg' = [ lg EXCEPT ![p] =
                         NextAlias([ Log(@, "get_rooms_for_user", None, @.user_id, TRUE)
                                       EXCEPT !.room_ids =
                                                  store_get_rooms_for_user(lg[p].user_id) ],
                                   order) ]
    /\ UNCHANGED << world, history, elsewhere >>

\* lookup_room_alias and the membership test (lines 180-185).
LookupRoomAlias(p) ==
    LET room_alias == Head(lg[p].todo)
    IN  /\ lg[p].pc = "lookup_room_alias"
        /\ \/ /\ Fault
              /\ lg' = [ lg EXCEPT ![p] =
                           NextAlias(Log(@, "lookup_room_alias", None, << room_alias >>, FALSE),
                                     AfterRoomError(@.todo)) ]
           \/ /\ UNCHANGED faults
              /\ lg' = [ lg EXCEPT ![p] =
                           IF room_alias \notin DOMAIN directory
                           THEN NextAlias(Log(@, "lookup_room_alias", None,
                                              << room_alias >>, FALSE),
                                          AfterRoomError(@.todo))
                           ELSE IF AlreadyMember(directory[room_alias], @.room_ids)
                           THEN NextAlias(Log(Log(@, "lookup_room_alias", None,
                                                  << room_alias >>, TRUE),
                                              "skip", None, directory[room_alias], TRUE),
                                          Tail(@.todo))
                           ELSE [ Log(@, "lookup_room_alias", None, << room_alias >>, TRUE)
                                    EXCEPT !.pc = "invite",
                                           !.room_id = directory[room_alias] ] ]
        /\ UNCHANGED << world, history, elsewhere >>

\* update_membership(requester=admin_user, action=INVITE) (lines 187-192).
Invite(p) ==
    LET room_id == lg[p].room_id
        target == lg[p].user_id
    IN  /\ lg[p].pc = "invite"
        /\ \/ /\ Fault
              /\ lg' = [ lg EXCEPT ![p] =
                           NextAlias(Log(@, InviteAction, admin_user, room_id, FALSE),
                                     AfterRoomError(@.todo)) ]
              /\ UNCHANGED << joined, invited >>
           \/ /\ UNCHANGED faults
              /\ IF CanUpdateMembership(admin_user, target, room_id, InviteAction)
                 THEN /\ joined' = JoinedAfter(target, room_id, InviteAction)
                      /\ invited' = InvitedAfter(target, room_id, InviteAction)
                      /\ lg' = [ lg EXCEPT ![p] =
                                   [ Log(@, InviteAction, admin_user, room_id, TRUE)
                                       EXCEPT !.pc = "join" ] ]
                 ELSE /\ lg' = [ lg EXCEPT ![p] =
                                   NextAlias(Log(@, InviteAction, admin_user, room_id, FALSE),
                                             AfterRoomError(@.todo)) ]
                      /\ UNCHANGED << joined, invited >>
        /\ UNCHANGED << accounts, directory, rooms, history, elsewhere >>

\* update_membership(requester=user_id, action=JOIN) (lines 193-200).
Join(p) ==
    LET room_id == lg[p].room_id
        target == lg[p].user_id
    IN  /\ lg[p].pc = "join"
        /\ \/ /\ Fault
              /\ lg' = [ lg EXCEPT ![p] =
                           NextAlias(Log(@, JoinAction, JoinRequester(target), room_id, FALSE),
                                     AfterRoomError(@.todo)) ]
              /\ UNCHANGED << joined, invited >>
           \/ /\ UNCHANGED faults
              /\ IF CanUpdateMembership(JoinRequester(target), target, room_id, JoinAction)
                 THEN /\ joined' = JoinedAfter(target, room_id, JoinAction)
                      /\ invited' = InvitedAfter(target, room_id, JoinAction)
                      /\ lg' = [ lg EXCEPT ![p] =
                                   NextAlias(Log(@, JoinAction, JoinRequester(target), room_id, TRUE),
                                             Tail(@.todo)) ]
                 ELSE /\ lg' = [ lg EXCEPT ![p] =
                                   NextAlias(Log(@, JoinAction, JoinRequester(target), room_id, FALSE),
                                             AfterRoomError(@.todo)) ]
                      /\ UNCHANGED << joined, invited >>
        /\ UNCHANGED << accounts, directory, rooms, history, elsewhere >>

\* One step of a running login.
Step(p) ==
    \/ AuthWithEpcon(p)
    \/ CheckUserExists(p)
    \/ RegisterUser(p)
    \/ CreateEpconRooms(p)
    \/ CreateRoom(p)
    \/ GetRoomsForUser(p)
    \/ LookupRoomAlias(p)
    \/ Invite(p)
    \/ Join(p)

\* Logins one after the other.
Next == \E p \in Logins : CallQuiet(p) \/ Step(p)

Spec == Init /\ [][Next]_vars

\* A running login always takes its next step: every collaborator call
\* returns or raises.
FairSpec == Spec /\ \A p \in Logins : WF_vars(Step(p))

(***************************************************************************)
(* Two logins at a time.  The reactor runs one coroutine until its next    *)
(* await, so the steps of two logins interleave at the awaits.  The two    *)
(* logins are logins of the same person: the endpoint answers the second   *)
(* as it answered the first, and the person is not staff and holds no      *)
(* combined ticket (at most four target rooms).  They start on a fresh     *)
(* homeserver, or on the homeserver as the first login of a staff          *)
(* administrator leaves it (the state Bootstrapped below, which Spec       *)
(* reaches).                                                               *)
(***************************************************************************)
RaceLogins == { 1, 2 }

AdminProfile ==
    Profile([ email |-> "admin@europython.eu", first_name |-> << "A" >>,
              last_name |-> << "D" >>, username |-> << "m" >> ],
            TRUE, FALSE, << Ticket("TRCC") >>)

\* The homeserver after the administrator's first login, when every call
\* of it succeeded.
Bootstrapped ==
    /\ accounts = (get_local_part(AdminProfile) :>
                     [ default_display_name |-> << "A", " ", "D" >>,
                       bind_emails |-> << "admin@europython.eu" >>,
                       admin |-> TRUE ])
    /\ directory = [ a \in Range(AliasOrder) |-> RoomIdFor(a) ]
    /\ rooms = [ r \in { RoomIdFor(DEFAULT_ROOMS[k][1]) : k \in 1..Len(DEFAULT_ROOMS) } |->
                   [ preset |-> IF \E k \in 1..Len(DEFAULT_ROOMS) :
                                      /\ RoomIdFor(DEFAULT_ROOMS[k][1]) = r
                                      /\ DEFAULT_ROOMS[k][2]
                                THEN "public_chat" ELSE "private_chat",
                     creator |-> admin_user ] ]
    /\ joined = { << admin_user, RoomIdFor(a) >> : a \in Range(AliasOrder) }
    /\ invited = {}
    /\ faults = 0
    /\ registrations = (get_local_part(AdminProfile) :> << "ok" >>)

InitRace ==
    \/ Init
    \/ /\ Bootstrapped
       /\ lg = [ p \in Logins |-> IdleLogin ]
       /\ prev = NoLogin
       /\ ProviderOnly

RaceBodies ==
    { b \in Bodies :
        \/ "is_staff" \notin DOMAIN b
        \/ "tickets" \notin DOMAIN b
        \/ ~b.is_staff /\ \A k \in 1..Len(b.tickets) :
                             b.tickets[k].fare_code \notin CombinedFareCodes }

AuthWithEpconAgain(p) ==
    /\ AuthWithEpcon(p)
    /\ lg'[p].http = "ok" => lg'[p].reply \in RaceBodies
    /\ \A q \in RaceLogins \ { p } :
          lg[q].http # "" => lg'[p].http = lg[q].http /\ lg'[p].reply = lg[q].reply

StepDuring(p) ==
    \/ AuthWithEpconAgain(p)
    \/ CheckUserExists(p)
    \/ RegisterUser(p)
    \/ CreateEpconRooms(p)
    \/ CreateRoom(p)
    \/ GetRoomsForUser(p)
    \/ LookupRoomAlias(p)
    \/ Invite(p)
    \/ Join(p)

NextRace == \E p \in RaceLogins : Call(p) \/ StepDuring(p)

SpecRace == InitRace /\ [][NextRace]_vars

(***************************************************************************)
(* What a login did, read from its trace.                                  *)
(***************************************************************************)
\* The calls that are no update_membership.
OtherCalls ==
    { "post_json_get_json", "check_user_exists", "register_user", "create_room",
      "get_rooms_for_user", "lookup_room_alias", "skip" }

\* The arguments of the calls of a login with the given name, whatever
\* their outcome.
Issued(login, op) == { c.arg : c \in Calls(login.trace, op, TRUE) \cup Calls(login.trace, op, FALSE) }

Skipped(login) == Issued(login, "skip")

\* The rooms whose alias the login failed to look up.
LookupFailed(login) ==
    { directory[a] : a \in { b \in DOMAIN directory :
                               << b >> \in { c.arg : c \in Calls(login.trace, "lookup_room_alias", FALSE) } } }

TargetOf(login) == get_rooms_for_user(login.epcon_data)

\* Two logins of one account with the same target rooms are over, and no
\* collaborator call failed for an outside reason.
BothReconciled(p, q) ==
    /\ p # q
    /\ lg[p].pc = "done" /\ lg[q].pc = "done"
    /\ Reconciled(lg[p]) /\ Reconciled(lg[q])
    /\ lg[p].user_id = lg[q].user_id
    /\ TargetOf(lg[p]) = TargetOf(lg[q])
    /\ faults = 0

\* The login reconciles the account and the target rooms the login before it
\* reconciled.
SamePairAsBefore(login) ==
    /\ login.user_id # None
    /\ Reconciled(login)
    /\ prev.reconciled
    /\ prev.user_id = login.user_id
    /\ prev.rooms_to_join = TargetOf(login)

\* The endpoint sent a profile that has no tickets.
Ticketless(reply) ==
    /\ "first_name" \in DOMAIN reply
    /\ \/ "tickets" \notin DOMAIN reply
       \/ Len(reply.tickets) = 0

\* The login was refused: bad credentials, a transport failure, no tickets.
Denied(login) ==
    \/ login.http \in TransportFailures
    \/ /\ login.http = "ok"
       /\ \/ "error" \in DOMAIN login.reply
          \/ Ticketless(login.reply)

OnlyThePost(login) ==
    /\ Len(login.trace) = 1
    /\ login.trace[1].op = "post_json_get_json"

(***************************************************************************)
(* C1.  Over any sequence of logins no account loses a room: joined only   *)
(* grows, and the only update_membership actions a login issues are        *)
(* invite and join.                                                        *)
(***************************************************************************)
C1_MembershipOnlyGrows ==
    [][ /\ joined \subseteq joined'
        /\ \A p \in Logins : \A k \in 1..Len(lg'[p].trace) :
             lg'[p].trace[k].op \in OtherCalls \cup { "invite", "join" } ]_vars

\* An account logs in again with a smaller target set and keeps a room that
\* is no longer a target.
C1_Witness ==
    \E p \in Logins :
        /\ lg[p].pc = "done"
        /\ Reconciled(lg[p])
        /\ prev.user_id = lg[p].user_id
        /\ lg[p].user_id # admin_user
        /\ \E a \in prev.rooms_to_join \ TargetOf(lg[p]) :
             << lg[p].user_id, RoomIdFor(a) >> \in joined

(***************************************************************************)
(* C2.  As claimed: the second reconciliation of the same account and      *)
(* target rooms issues no invite and no join, and skips every room the     *)
(* first one applied.                                                      *)
(***************************************************************************)
C2_SecondCallIssuesNothing ==
    \A p \in Logins :
        lg[p].pc = "done" /\ SamePairAsBefore(lg[p])
           => /\ Issued(lg[p], "invite") = {}
              /\ Issued(lg[p], "join") = {}
              /\ prev.applied \subseteq Skipped(lg[p])

(***************************************************************************)
(* C2, amended.  The second reconciliation issues no invite and no join    *)
(* for a room the first one applied, and none at all when the first one    *)
(* applied every target room; when it is over, each room the first one     *)
(* applied was skipped, unless the lookup of its alias failed this time.   *)
(***************************************************************************)
C2_AppliedRoomsAreNotReapplied ==
    \A p \in Logins :
        SamePairAsBefore(lg[p])
           => /\ (Issued(lg[p], "invite") \cup Issued(lg[p], "join")) \cap prev.applied = {}
              /\ Cardinality(prev.applied) = Cardinality(prev.rooms_to_join)
                    => Issued(lg[p], "invite") \cup Issued(lg[p], "join") = {}
              /\ lg[p].pc = "done"
                    => prev.applied \subseteq Skipped(lg[p]) \cup LookupFailed(lg[p])

\* The second reconciliation is over and skipped the rooms of the first.
C2_Witness ==
    \E p \in Logins :
        /\ lg[p].pc = "done"
        /\ SamePairAsBefore(lg[p])
        /\ prev.applied # {}
        /\ prev.applied \subseteq Skipped(lg[p])

(***************************************************************************)
(* C3.  A login by email whose profile has tickets and whose account was   *)
(* resolved ends authenticated: it returns the account id, whatever fails  *)
(* in the bootstrap and in the reconciliation.                             *)
(***************************************************************************)
C3_ResolvedLoginIsAuthenticated ==
    \A p \in Logins :
        [](  /\ lg[p].medium = "email"
             /\ lg[p].http = "ok"
             /\ ~Ticketless(lg[p].reply)
             /\ lg[p].user_id # None
          => <>(lg[p].pc = "done" /\ lg[p].result = Return(lg[p].user_id)) )

\* A login is authenticated although every room operation of it failed.
C3_Witness ==
    \E p \in Logins :
        /\ lg[p].pc = "done"
        /\ lg[p].user_id # None
        /\ lg[p].result = Return(lg[p].user_id)
        /\ Reconciled(lg[p])
        /\ TargetOf(lg[p]) # {}
        /\ Cardinality(Calls(lg[p].trace, "lookup_room_alias", FALSE))
              = Cardinality(TargetOf(lg[p]))

(***************************************************************************)
(* C4.  A failure for one alias does not keep the others from being        *)
(* processed: when a reconciliation is over every target alias was looked  *)
(* up, every room found and not in the fetched membership was invited to,  *)
(* and every room whose invite succeeded was joined.                       *)
(***************************************************************************)
C4_EveryAliasIsProcessed ==
    \A p \in Logins :
        lg[p].pc = "done" /\ Reconciled(lg[p])
           => /\ \A a \in TargetOf(lg[p]) :
                    << a >> \in Issued(lg[p], "lookup_room_alias")
              /\ \A c \in Calls(lg[p].trace, "lookup_room_alias", TRUE) :
                    directory[c.arg[1]] \notin lg[p].room_ids
                       => directory[c.arg[1]] \in Issued(lg[p], "invite")
              /\ \A c \in Calls(lg[p].trace, "invite", TRUE) :
                    c.arg \in Issued(lg[p], "join")

\* A room is joined after an operation on an earlier alias failed.
C4_Witness ==
    \E p \in Logins :
        /\ lg[p].pc = "done"
        /\ Reconciled(lg[p])
        /\ \E k \in 1..Len(lg[p].trace) : \E m \in 1..Len(lg[p].trace) :
             /\ k < m
             /\ lg[p].trace[k].op \in { "lookup_room_alias", "invite", "join" }
             /\ ~lg[p].trace[k].ok
             /\ lg[p].trace[m].op = "join"
             /\ lg[p].trace[m].ok

C6_RegisterInvokedAtMostOnce ==
    \A localpart \in DOMAIN registrations : Len(registrations[localpart]) <= 1

(***************************************************************************)
(* C6, amended.  Over logins one after the other, a resolved login has the *)
(* qualified id of its profile's localpart; register_user is never invoked *)
(* for a localpart whose account exists, so it succeeds at most once and   *)
(* is not invoked again afterwards; a login of the account the login       *)
(* before it resolved does not invoke it.                                  *)
(***************************************************************************)
C6_AccountIsMintedOnce ==
    /\ \A localpart \in DOMAIN registrations :
         \A k \in 1..Len(registrations[localpart]) :
            /\ registrations[localpart][k] # "taken"
            /\ registrations[localpart][k] = "ok" => k = Len(registrations[localpart])
    /\ \A p \in Logins :
         lg[p].user_id # None
            => /\ lg[p].user_id = get_qualified_user_id(get_local_part(lg[p].epcon_data))
               /\ prev.user_id = lg[p].user_id => Issued(lg[p], "register_user") = {}

\* The second login of a person found the account the first one registered.
C6_Witness ==
    \E p \in Logins :
        /\ lg[p].pc = "done"
        /\ lg[p].user_id # None
        /\ prev.user_id = lg[p].user_id
        /\ registrations[get_local_part(lg[p].epcon_data)] = << "ok" >>
        /\ Calls(lg[p].trace, "check_user_exists", TRUE) # {}

(***************************************************************************)
(* C7.  Two logins of one person at a time, the account not existing yet:  *)
(* register_user succeeds at most once for the localpart, and the logins   *)
(* that return an account id return the same one.                          *)
(***************************************************************************)
C7_ProvisioningRaceIsSafe ==
    /\ \A localpart \in DOMAIN registrations :
         Cardinality({ k \in 1..Len(registrations[localpart]) :
                         registrations[localpart][k] = "ok" }) <= 1
    /\ \A p \in Logins : \A q \in Logins :
         /\ lg[p].pc = "done" /\ lg[q].pc = "done"
         /\ lg[p].http = "ok" /\ lg[q].http = "ok"
         /\ lg[p].reply = lg[q].reply
         /\ lg[p].result.kind = "return" /\ lg[p].result.value # None
         /\ lg[q].result.kind = "return" /\ lg[q].result.value # None
         => lg[p].result.value = lg[q].result.value

\* Both logins found no account; one registered it, the other was refused
\* the localpart and raised.
C7_Witness ==
    \E p \in Logins : \E q \in Logins :
        /\ lg[p].pc = "done" /\ lg[q].pc = "done"
        /\ lg[p].reply = lg[q].reply
        /\ lg[p].user_id # None
        /\ lg[p].result = Return(lg[p].user_id)
        /\ lg[q].result = Raise(CollaboratorError("register_user"))
        /\ registrations[get_local_part(lg[p].epcon_data)] = << "ok", "taken" >>

(***************************************************************************)
(* C8.  Two logins of one existing account at a time, with the same target *)
(* rooms and no outside failure: no room is ever removed, and when both    *)
(* are over the account is in the rooms it was in when they fetched its    *)
(* membership and in every target room that exists, and in no other.       *)
(***************************************************************************)
C8_MembershipRaceIsSafe ==
    [][ /\ joined \subseteq joined'
        /\ \A p \in Logins : \A q \in Logins :
             BothReconciled(p, q)'
                => store_get_rooms_for_user(lg[p].user_id)'
                     = (lg[p].room_ids \cup lg[q].room_ids
                        \cup { directory[a] : a \in TargetOf(lg[p]) \cap DOMAIN directory })' ]_vars

\* Both logins are over; one of them was refused an invite because the other
\* had already joined the room.
C8_Witness ==
    \E p \in Logins : \E q \in Logins :
        /\ BothReconciled(p, q)
        /\ Calls(lg[q].trace, "invite", FALSE) # {}
        /\ Calls(lg[p].trace, "join", TRUE) # {}
        /\ \A a \in TargetOf(lg[p]) : << lg[p].user_id, RoomIdFor(a) >> \in joined

(***************************************************************************)
(* C9.  A refused login (bad credentials, a transport failure, no tickets) *)
(* returns no account id, makes no call but the request to the endpoint    *)
(* and changes nothing on the homeserver.                                  *)
(***************************************************************************)
C9_RefusedLoginHasNoEffect ==
    [][ \A p \in Logins :
          Denied(lg'[p])
             => /\ lg'[p].pc = "done"
                /\ lg'[p].result.value = None
                /\ lg'[p].user_id = None
                /\ OnlyThePost(lg'[p])
                /\ accounts' = accounts /\ registrations' = registrations
                /\ directory' = directory /\ rooms' = rooms
                /\ joined' = joined /\ invited' = invited ]_vars

\* Bad credentials are refused on a homeserver that has accounts and rooms.
C9_Witness ==
    \E p \in Logins :
        /\ lg[p].pc = "done"
        /\ lg[p].http = "ok"
        /\ "error" \in DOMAIN lg[p].reply
        /\ lg[p].result = Return(None)
        /\ DOMAIN accounts # {}
        /\ DOMAIN directory # {}

LastCall(login) == login.trace[Len(login.trace)]

\* The step adds a call to the trace of login p.
Grew(p) == Len(lg'[p].trace) > Len(lg[p].trace)

\* The create_room calls of a login, in their order.
CreateAttempts(login) ==
    LET IsCreate(c) == c.op = "create_room"
    IN  SelectSeq(login.trace, IsCreate)

\* The positions of the calls of a login that belong to the reconciliation.
ReconcilingCalls(login) ==
    { k \in 1..Len(login.trace) :
        login.trace[k].op \in { "get_rooms_for_user", "lookup_room_alias", "skip",
                                "invite", "join" } }

(***************************************************************************)
(* C11.  A login with a medium other than email returns None and does      *)
(* nothing: no request to the endpoint, no call to a collaborator, no      *)
(* change of the homeserver.                                               *)
(***************************************************************************)
C11_OtherMediumDoesNothing ==
    [][ \A p \in Logins :
          lg'[p].medium \notin { "", "email" }
             => /\ lg'[p].pc = "done"
                /\ lg'[p].result = Return(None)
                /\ lg'[p].trace = << >>
                /\ accounts' = accounts /\ registrations' = registrations
                /\ directory' = directory /\ rooms' = rooms
                /\ joined' = joined /\ invited' = invited
                /\ faults' = faults ]_vars

\* A login by msisdn ended on a homeserver that has accounts and rooms.
C11_Witness ==
    \E p \in Logins :
        /\ lg[p].pc = "done"
        /\ lg[p].medium = "msisdn"
        /\ lg[p].result = Return(None)
        /\ DOMAIN accounts # {}
        /\ DOMAIN directory # {}

(***************************************************************************)
(* C12.  A login whose register_user call failed raises: it returns no     *)
(* account id, and after the failed call it makes no other call (no        *)
(* bootstrap, no membership fetch, no lookup, invite or join).             *)
(***************************************************************************)
C12_ProvisioningFailureIsFatal ==
    \A p \in Logins :
        Calls(lg[p].trace, "register_user", FALSE) # {}
           => /\ lg[p].pc = "done"
              /\ lg[p].result = Raise(CollaboratorError("register_user"))
              /\ lg[p].user_id = None
              /\ LastCall(lg[p]).op = "register_user"
              /\ Len(lg[p].trace) = 3
              /\ Issued(lg[p], "create_room") = {}
              /\ ReconcilingCalls(lg[p]) = {}

\* The registration of the admin account failed: no bootstrap.
C12_Witness ==
    \E p \in Logins :
        /\ lg[p].pc = "done"
        /\ lg[p].localpart = get_local_part(AdminProfile)
        /\ Calls(lg[p].trace, "register_user", FALSE) # {}
        /\ lg[p].result.kind = "raise"

(***************************************************************************)
(* C13.  A login of an account other than the admin account attempts no    *)
(* room creation; the room directory changes only in the create_room step  *)
(* of a login of the admin account, so it is empty as long as the admin    *)
(* account has not logged in.                                              *)
(***************************************************************************)
C13_BootstrapOnlyForAdmin ==
    [][ /\ \A p \in Logins :
             lg'[p].user_id # admin_user
                => /\ Issued(lg'[p], "create_room") = {}
                   /\ lg'[p].pc \notin { "create_epcon_rooms", "create_room" }
        /\ directory' # directory
             => \E p \in Logins : lg[p].user_id = admin_user /\ lg[p].pc = "create_room"
        /\ DOMAIN directory' # {} => check_user_exists(admin_user)' ]_vars

\* Two logins of other accounts in a row, the second reconciled, and still
\* no room.
C13_Witness ==
    \E p \in Logins :
        /\ lg[p].pc = "done"
        /\ Reconciled(lg[p])
        /\ lg[p].user_id # admin_user
        /\ prev.user_id # None
        /\ prev.user_id # admin_user
        /\ ~check_user_exists(admin_user)
        /\ DOMAIN directory = {}
        /\ Calls(lg[p].trace, "lookup_room_alias", FALSE) # {}

(***************************************************************************)
(* C14.  In a login of the admin account the bootstrap comes before the    *)
(* reconciliation: the membership fetch follows the bootstrap's            *)
(* check_user_exists, and no create_room follows a membership fetch, a     *)
(* lookup, an invite or a join.  A create_room for an alias that exists    *)
(* fails and the login goes on.                                            *)
(***************************************************************************)
C14_BootstrapBeforeReconciliation ==
    [][ \A p \in Logins :
          /\ \A k \in ReconcilingCalls(lg'[p]) : \A m \in 1..Len(lg'[p].trace) :
                lg'[p].trace[m].op = "create_room" => m < k
          /\ lg'[p].user_id = admin_user /\ ReconcilingCalls(lg'[p]) # {}
                => Cardinality({ k \in 1..Len(lg'[p].trace) :
                                   /\ lg'[p].trace[k].op = "check_user_exists"
                                   /\ \A m \in ReconcilingCalls(lg'[p]) : k < m }) = 2
          /\ /\ Grew(p)
             /\ LastCall(lg'[p]).op = "create_room"
             /\ LastCall(lg'[p]).arg[1] \in DOMAIN directory
             => /\ ~LastCall(lg'[p]).ok
                /\ lg'[p].pc \in { "create_room", "get_rooms_for_user" }
          /\ lg'[p].pc = "done" /\ Issued(lg'[p], "create_room") # {}
                => lg'[p].result = Return(admin_user) ]_vars

\* A later login of the admin account: every room exists, every creation
\* fails, and the login reconciles and returns the account id.
C14_Witness ==
    \E p \in Logins :
        /\ lg[p].pc = "done"
        /\ lg[p].user_id = admin_user
        /\ lg[p].result = Return(admin_user)
        /\ faults = 0
        /\ Cardinality(Calls(lg[p].trace, "create_room", FALSE)) = Len(DEFAULT_ROOMS)
        /\ Cardinality(DOMAIN directory) = Len(DEFAULT_ROOMS)
        /\ Skipped(lg[p]) # {}

(***************************************************************************)
(* C15.  A bootstrap attempts the creation of every room of DEFAULT_ROOMS, *)
(* in their order, whichever creations failed.                             *)
(***************************************************************************)
C15_EveryRoomIsAttempted ==
    \A p \in Logins :
        LET attempts == CreateAttempts(lg[p])
        IN  /\ \A k \in 1..Len(attempts) : attempts[k].arg = << AliasOrder[k] >>
            /\ lg[p].pc = "create_room" => Len(attempts) = lg[p].i - 1
            /\ lg[p].pc # "create_room" /\ attempts # << >>
                  => Len(attempts) = Len(DEFAULT_ROOMS)

\* A creation succeeded after an earlier one of the same bootstrap failed.
C15_Witness ==
    \E p \in Logins :
        LET attempts == CreateAttempts(lg[p])
        IN  /\ lg[p].pc = "done"
            /\ Len(attempts) = Len(DEFAULT_ROOMS)
            /\ \E k \in 1..Len(attempts) : \E m \in 1..Len(attempts) :
                 k < m /\ ~attempts[k].ok /\ attempts[m].ok

(***************************************************************************)
(* get_rooms_for_user on its own: a profile is drawn, the function is      *)
(* applied to it, the tickets of the profile are rearranged and the        *)
(* function is applied again.                                              *)
(***************************************************************************)
\* The fare codes of the room policy and one it does not know.
FareCodes == { "TRPC", "TRPP", "TRCC", "TRCP", "TRSC", "TRSP", "TRXX" }

TicketLists ==
    UNION { [ 1..n -> { Ticket(c) : c \in FareCodes } ] : n \in 0..MaxTickets }

\* The profiles get_rooms_for_user is applied to.  A profile of a staff
\* member may lack its tickets: line 57 returns before they are read.
PolicyProfiles ==
    LET who == CHOOSE w \in People : w.email = "jose@example.com"
    IN  { Profile(who, st, sp, t) : st \in BOOLEAN, sp \in BOOLEAN, t \in TicketLists }
        \cup { WithoutTickets(who, TRUE, sp) : sp \in BOOLEAN }

Count(s, x) == Cardinality({ k \in 1..Len(s) : s[k] = x })

\* The tickets in another order, or in another order with one of them twice.
Rearrangements(tickets) ==
    { t \in UNION { [ 1..n -> Range(tickets) ] : n \in Len(tickets)..(Len(tickets) + 1) } :
        /\ t # tickets
        /\ \A x \in Range(tickets) :
              IF Len(t) = Len(tickets) THEN Count(t, x) = Count(tickets, x)
              ELSE Count(t, x) >= Count(tickets, x) }

\* The homeserver and the logins are not looked at.
NoLogins ==
    /\ accounts = << >>
    /\ directory = << >>
    /\ rooms = << >>
    /\ joined = {}
    /\ invited = {}
    /\ faults = 0
    /\ lg = [ p \in Logins |-> IdleLogin ]
    /\ prev = NoLogin
    /\ registrations = << >>

InitPolicy ==
    /\ NoLogins
    /\ power_levels = << >>
    /\ run = NoRun
    /\ setting = << >>
    /\ \E epcon_data \in PolicyProfiles :
         policy = [ NoPolicy EXCEPT !.pc = "in", !.epcon_data = epcon_data ]

\* rooms_to_join = get_rooms_for_user(epcon_data) (line 177, lines 55-72).
ComputeTargetRooms ==
    /\ policy.pc = "in"
    /\ policy' = [ policy EXCEPT !.pc = "out",
                                 !.rooms = get_rooms_for_user(policy.epcon_data) ]
    /\ UNCHANGED << world, faults, lg, history, power_levels, run, setting >>

\* The same profile with its tickets rearranged.
RearrangeTickets ==
    /\ policy.pc = "out"
    /\ policy.rearranged < MaxRearrangements
    /\ "tickets" \in DOMAIN policy.epcon_data
    /\ \E t \in Rearrangements(policy.epcon_data.tickets) :
         policy' = [ policy EXCEPT !.pc = "in", !.epcon_data.tickets = t,
                                   !.earlier = policy.rooms,
                                   !.rearranged = @ + 1 ]
    /\ UNCHANGED << world, faults, lg, history, power_levels, run, setting >>

NextPolicy == ComputeTargetRooms \/ RearrangeTickets

SpecPolicy == InitPolicy /\ [][NextPolicy]_vars

\* The fare codes of the tickets of a profile.
FareCodesOf(epcon_data) ==
    { epcon_data.tickets[k].fare_code : k \in 1..Len(epcon_data.tickets) }

(***************************************************************************)
(* C16.  For a staff member get_rooms_for_user returns the rooms of the    *)
(* four groups, whatever is_speaker and the tickets are.                   *)
(***************************************************************************)
C16_StaffGetsAllGroups ==
    policy.pc = "out" /\ policy.epcon_data.is_staff
       => policy.rooms = Range(JOIN_DEFAULT) \cup Range(JOIN_CONFERENCE)
                         \cup Range(JOIN_SPEAKER) \cup Range(JOIN_STAFF)

\* A staff member who is no speaker and holds a ticket of an unknown fare.
C16_Witness ==
    /\ policy.pc = "out"
    /\ policy.epcon_data.is_staff
    /\ ~policy.epcon_data.is_speaker
    /\ "tickets" \in DOMAIN policy.epcon_data
    /\ FareCodesOf(policy.epcon_data) = { "TRXX" }
    /\ Range(JOIN_STAFF) \subseteq policy.rooms

(***************************************************************************)
(* C17.  As claimed: a profile with a sprint fare code among its tickets   *)
(* and neither flag gets the Default group and no room of the Conference,  *)
(* Speaker or Staff groups.                                                *)
(***************************************************************************)
C17_SprintTicketGivesDefaultOnly ==
    /\ policy.pc = "out"
    /\ ~policy.epcon_data.is_staff /\ ~policy.epcon_data.is_speaker
    /\ FareCodesOf(policy.epcon_data) \cap { "TRPC", "TRPP" } # {}
    => /\ Range(JOIN_DEFAULT) \subseteq policy.rooms
       /\ policy.rooms \cap (Range(JOIN_CONFERENCE) \cup Range(JOIN_SPEAKER)
                             \cup Range(JOIN_STAFF)) = {}

(***************************************************************************)
(* C17, amended.  A profile with a sprint fare code among its tickets,     *)
(* neither flag and no combined fare code among its tickets gets the       *)
(* Default group and no room of the Conference, Speaker or Staff groups;   *)
(* with a combined fare code among the tickets it gets the Conference      *)
(* group too.                                                              *)
(***************************************************************************)
C17_SprintOnlyTicketsGiveDefaultOnly ==
    /\ policy.pc = "out"
    /\ ~policy.epcon_data.is_staff /\ ~policy.epcon_data.is_speaker
    /\ FareCodesOf(policy.epcon_data) \cap { "TRPC", "TRPP" } # {}
    => /\ Range(JOIN_DEFAULT) \subseteq policy.rooms
       /\ policy.rooms \cap (Range(JOIN_SPEAKER) \cup Range(JOIN_STAFF)) = {}
       /\ IF FareCodesOf(policy.epcon_data) \cap { "TRCC", "TRCP", "TRSC", "TRSP" } = {}
          THEN policy.rooms \cap Range(JOIN_CONFERENCE) = {}
          ELSE Range(JOIN_CONFERENCE) \subseteq policy.rooms

\* A TRPP ticket next to a ticket of an unknown fare: the Default group only.
C17_Witness ==
    /\ policy.pc = "out"
    /\ ~policy.epcon_data.is_staff /\ ~policy.epcon_data.is_speaker
    /\ FareCodesOf(policy.epcon_data) = { "TRPP", "TRXX" }
    /\ policy.rooms = Range(JOIN_DEFAULT)

(***************************************************************************)
(* C18.  get_rooms_for_user gives the same rooms for the tickets of a      *)
(* profile in any order, and with a ticket twice.                          *)
(***************************************************************************)
C18_TicketOrderDoesNotMatter ==
    policy.pc = "out" /\ policy.rearranged > 0 => policy.rooms = policy.earlier

\* A sprint ticket and a combined ticket, rearranged.
C18_Witness ==
    /\ policy.pc = "out"
    /\ policy.rearranged > 0
    /\ ~policy.epcon_data.is_staff
    /\ FareCodesOf(policy.epcon_data) = { "TRPC", "TRCC" }
    /\ policy.rooms = policy.earlier
    /\ Range(JOIN_CONFERENCE) \subseteq policy.rooms

(***************************************************************************)
(* bin/set_power_level_on_all_rooms.py: one run of main against a server   *)
(* that holds the m.room.power_levels of the rooms the token is joined to. *)
(***************************************************************************)
ToolUsers == { "@ana:europython.eu", "@bo:europython.eu" }

ToolRooms == { "!r1:europython.eu", "!r2:europython.eu" }

PowerLevels == { 0, 50, 100 }

\* The 'users' mapping of a room's m.room.power_levels content.
UsersLevels == UNION { [ U -> PowerLevels ] : U \in SUBSET ToolUsers }

\* The usernames given as arguments.
UsernameLists == UNION { [ 1..n -> ToolUsers ] : n \in 0..2 }

\* --from_csv: << >> when the flag is not given, else the rows of the file.
\* The last file has a blank line, for which csv.reader yields [].
CsvFiles ==
    { << >>,
      << << >> >>,
      << << << "Ana", "@ana:europython.eu" >> >> >>,
      << << << "@bo:europython.eu" >>, << "1", "Ana", "@ana:europython.eu" >> >> >>,
      << << << "@bo:europython.eu" >>, << >> >> >> }

IndexError == [ type |-> "IndexError" ]
TypeError == [ type |-> "TypeError" ]
HTTPError == [ type |-> "HTTPError" ]

\* Lines 43-49: the last column of each row.  row[-1] of an empty row raises.
HasEmptyRow(rows) == \E k \in 1..Len(rows) : rows[k] = << >>

_read_usernames_from_csv_file(rows) ==
    [ k \in 1..Len(rows) |-> rows[k][Len(rows[k])] ]

\* The orders in which joined_rooms may list the rooms.
RoomLists ==
    { l \in UNION { [ 1..n -> DOMAIN power_levels ] : n \in 0..Cardinality(ToolRooms) } :
        /\ Len(l) = Cardinality(DOMAIN power_levels)
        /\ Range(l) = DOMAIN power_levels }

\* The parameters of set_user_room_power_level_batch (admin_tool.py 203-204).
BatchParameters == { "users_levels", "room_id", "access_token", "base_url" }

\* Seeded fault: the function takes any keyword.
AcceptsKeywordAlways(keyword) == TRUE

\* A call with a keyword the function does not have raises TypeError.
AcceptsKeyword(keyword) == keyword \in BatchParameters

\* power_level_dict of line 62.
power_level_dict(usernames, power_level) ==
    [ user_id \in Range(usernames) |-> power_level ]

\* room_levels['users'].update(users_levels), line 220.
Update(users, users_levels) ==
    [ user_id \in DOMAIN users \cup DOMAIN users_levels |->
        IF user_id \in DOMAIN users_levels THEN users_levels[user_id]
        ELSE users[user_id] ]

InitTool ==
    /\ NoLogins
    /\ policy = NoPolicy
    /\ setting = << >>
    /\ \E R \in SUBSET ToolRooms : power_levels \in [ R -> UsersLevels ]
    /\ \E usernames \in UsernameLists, power_level \in PowerLevels,
          force \in BOOLEAN, from_csv \in CsvFiles :
         run = [ NoRun EXCEPT !.pc = "main", !.usernames = usernames,
                              !.power_level = power_level, !.force = force,
                              !.from_csv = from_csv ]

EndRun(result) == [ run EXCEPT !.pc = "done", !.result = result ]

\* main, lines 54-58.
Main ==
    /\ run.pc = "main"
    /\ LET rows == IF run.from_csv = << >> THEN << >> ELSE run.from_csv[1]
           usernames == IF run.from_csv = << >> THEN run.usernames
                        ELSE _read_usernames_from_csv_file(rows)
       IN  IF HasEmptyRow(rows) THEN run' = EndRun(Raise(IndexError))
           ELSE IF usernames = << >>
                THEN run' = [ EndRun(Return(None)) EXCEPT !.usernames = usernames ]
                ELSE run' = [ run EXCEPT !.pc = "get_rooms", !.usernames = usernames ]
    /\ UNCHANGED << world, faults, lg, history, policy, power_levels, setting >>

\* get_rooms, line 60 (admin_tool.py 27-43): the request fails, or the
\* joined rooms come back.
GetRooms ==
    /\ run.pc = "get_rooms"
    /\ \/ run' = EndRun(Raise(HTTPError))
       \/ \E room_ids \in RoomLists :
            run' = IF room_ids = << >> THEN EndRun(Return(None))
                   ELSE [ run EXCEPT !.pc = "loop", !.room_ids = room_ids, !.i = 1 ]
    /\ UNCHANGED << world, faults, lg, history, policy, power_levels, setting >>

\* The end of a turn of the loop of line 63; line 71 after the last room.
NextToolRoom ==
    IF run.i = Len(run.room_ids) THEN EndRun(Return(None))
    ELSE [ run EXCEPT !.i = @ + 1 ]

\* One turn of the loop, lines 63-70: the call of
\* set_user_room_power_level_batch with do_not_downgrade=not force, and the
\* body of the function (admin_tool.py 215-238) when the call is accepted.
SetUserRoomPowerLevelBatch ==
    /\ run.pc = "loop"
    /\ LET room_id == run.room_ids[run.i]
           users_levels == power_level_dict(run.usernames, run.power_level)
           original_levels == power_levels[room_id]
           updated == Update(original_levels, users_levels)
       IN  IF ~AcceptsKeyword("do_not_downgrade")
           THEN /\ run' = EndRun(Raise(TypeError))
                /\ UNCHANGED power_levels
           ELSE IF updated = original_levels
                THEN /\ run' = NextToolRoom
                     /\ UNCHANGED power_levels
                ELSE \/ /\ run' = EndRun(Raise(HTTPError))
                        /\ UNCHANGED power_levels
                     \/ /\ power_levels' = [ power_levels EXCEPT ![room_id] = updated ]
                        /\ run' = NextToolRoom
    /\ UNCHANGED << world, faults, lg, history, policy, setting >>

NextTool == Main \/ GetRooms \/ SetUserRoomPowerLevelBatch

SpecTool == InitTool /\ [][NextTool]_vars

\* A listed user holds more than the requested level in a room of the token.
WouldDowngrade(room_id, user_id) ==
    /\ room_id \in DOMAIN power_levels
    /\ user_id \in Range(run.usernames)
    /\ user_id \in DOMAIN power_levels[room_id]
    /\ power_levels[room_id][user_id] > run.power_level

(***************************************************************************)
(* C19.  In a run without --force no step lowers a listed user: a listed   *)
(* user who holds more than the requested power level in a room of the     *)
(* token holds the same level in that room after the step.                 *)
(***************************************************************************)
C19_NoDowngradeWithoutForce ==
    [][ ~run.force =>
          \A room_id \in ToolRooms, user_id \in ToolUsers :
             WouldDowngrade(room_id, user_id) =>
                power_levels'[room_id][user_id] = power_levels[room_id][user_id] ]_vars

\* A run without --force has reached a room in which a listed user holds
\* more than the requested level, and has ended.
C19_Witness ==
    /\ run.pc = "done"
    /\ ~run.force
    /\ run.room_ids # << >>
    /\ run.result = Raise(TypeError)
    /\ WouldDowngrade(run.room_ids[run.i], "@ana:europython.eu")
    /\ power_levels[run.room_ids[run.i]]["@ana:europython.eu"] = 100
    /\ run.power_level = 50

\* The rooms a login has to add its account to: the target rooms that exist,
\* less the membership fetched at line 176.
RoomsToAdd(login) ==
    { directory[a] : a \in TargetOf(login) \cap DOMAIN directory } \ login.room_ids

\* The memberships and invitations a step gives.
MembershipGiven == (joined' \ joined) \cup (invited' \ invited)

(***************************************************************************)
(* C20.  In the calls of a login every invite is requested by the admin    *)
(* account for a target room outside the fetched membership, and every     *)
(* join is requested by the account logging in, for the room of the call   *)
(* just before it, which is a successful invite; a step of a login at its  *)
(* invite or join gives memberships to its own account in such rooms only, *)
(* and no step but these and create_room gives any.                        *)
(***************************************************************************)
C20_InviteThenJoinForTargetOnly ==
    /\ [](\A p \in Logins : \A k \in 1..Len(lg[p].trace) :
            LET call == lg[p].trace[k]
            IN  /\ call.op = "invite"
                     => /\ call.by = admin_user
                        /\ call.arg \in RoomsToAdd(lg[p])
                /\ call.op = "join"
                     => /\ call.by = lg[p].user_id
                        /\ k > 1
                        /\ lg[p].trace[k - 1] = Op("invite", admin_user, call.arg, TRUE))
    /\ [][ /\ \A p \in Logins :
                lg[p].pc \in { "invite", "join" }
                   => MembershipGiven \subseteq
                         { << lg[p].user_id, r >> : r \in RoomsToAdd(lg[p]) }
           /\ (\A p \in Logins : lg[p].pc \notin { "invite", "join", "create_room" })
                 => MembershipGiven = {} ]_vars

\* A login of another account than the admin is over: one invite failed and
\* no join followed it, another succeeded and was followed by the join.
C20_Witness ==
    \E p \in Logins :
        /\ lg[p].pc = "done"
        /\ lg[p].user_id # admin_user
        /\ \E k \in 1..Len(lg[p].trace) :
             /\ lg[p].trace[k].op = "invite" /\ ~lg[p].trace[k].ok
             /\ lg[p].trace[k].arg \notin Issued(lg[p], "join")
        /\ \E k \in 2..Len(lg[p].trace) :
             /\ lg[p].trace[k] = Op("join", lg[p].user_id, lg[p].trace[k].arg, TRUE)
             /\ lg[p].trace[k - 1].op = "invite"

\* How many calls of a trace have the given name, and the given argument.
CountOp(trace, op) == Cardinality({ k \in 1..Len(trace) : trace[k].op = op })

CountCall(trace, op, arg) ==
    Cardinality({ k \in 1..Len(trace) : trace[k].op = op /\ trace[k].arg = arg })

\* The positions of a login inside the loop of _apply_user_policies.
InLoop == { "lookup_room_alias", "invite", "join" }

(***************************************************************************)
(* C21.  A login makes at most one request to the endpoint, fetches the    *)
(* membership exactly once when it reconciles (and the fetched set stays   *)
(* the same through the loop), looks each alias up at most once and        *)
(* issues at most one invite and at most one join per room.                *)
(***************************************************************************)
C21_NothingIsRetried ==
    /\ [](\A p \in Logins :
            LET trace == lg[p].trace
            IN  /\ CountOp(trace, "post_json_get_json") <= 1
                /\ CountOp(trace, "get_rooms_for_user") <= 1
                /\ \A k \in 1..Len(trace) :
                     /\ trace[k].op \in { "lookup_room_alias", "skip", "invite", "join" }
                          => /\ CountOp(trace, "get_rooms_for_user") = 1
                             /\ \E j \in 1..(k - 1) : trace[j].op = "get_rooms_for_user"
                     /\ trace[k].op \in { "lookup_room_alias", "invite", "join" }
                          => CountCall(trace, trace[k].op, trace[k].arg) = 1)
    /\ [][ \A p \in Logins :
              lg[p].pc \in InLoop /\ lg'[p].pc \in InLoop \cup { "done" }
                 => lg'[p].room_ids = lg[p].room_ids ]_vars

\* A login is over in which an outside failure hit one alias lookup and
\* another room was invited to and joined.
C21_Witness ==
    \E p \in Logins :
        /\ lg[p].pc = "done"
        /\ faults > 0
        /\ Calls(lg[p].trace, "lookup_room_alias", FALSE) # {}
        /\ Calls(lg[p].trace, "invite", TRUE) # {}
        /\ Calls(lg[p].trace, "join", TRUE) # {}
        /\ CountOp(lg[p].trace, "get_rooms_for_user") = 1
        /\ CountOp(lg[p].trace, "post_json_get_json") = 1

(***************************************************************************)
(* C22.  register_user is called only for a localpart without an account;  *)
(* a login that finds the account of its localpart goes on with that       *)
(* account's id and changes no account; no step changes an account that    *)
(* exists, and a new account carries the display name, the email and the   *)
(* is_staff value of the profile of the login that registers it.           *)
(***************************************************************************)
C22_ExistingAccountIsLeftAlone ==
    /\ [](\A p \in Logins :
            lg[p].pc = "register_user" => lg[p].localpart \notin DOMAIN accounts)
    /\ [][ /\ \A localpart \in DOMAIN accounts :
                /\ localpart \in DOMAIN accounts'
                /\ accounts'[localpart] = accounts[localpart]
           /\ \A localpart \in DOMAIN accounts' \ DOMAIN accounts :
                \E p \in Logins :
                   /\ lg[p].pc = "register_user"
                   /\ lg[p].localpart = localpart
                   /\ accounts'[localpart].admin = lg[p].epcon_data.is_staff
                   /\ accounts'[localpart].bind_emails = << lg[p].epcon_data.email >>
                   /\ accounts'[localpart].default_display_name =
                         lg[p].epcon_data.first_name \o << " " >> \o lg[p].epcon_data.last_name
           /\ \A p \in Logins :
                /\ lg[p].pc = "check_user_exists"
                /\ lg'[p].pc # "check_user_exists"
                /\ faults' = faults
                /\ lg[p].localpart \in DOMAIN accounts
                => /\ lg'[p].pc # "register_user"
                   /\ lg'[p].user_id = get_qualified_user_id(lg[p].localpart)
                   /\ accounts' = accounts ]_vars

\* A login returned an account it did not register, whose display name,
\* email and admin flag all differ from what its own profile says.
C22_Witness ==
    \E p \in Logins :
        LET login == lg[p]
        IN  /\ login.pc = "done"
            /\ login.user_id # None
            /\ login.result = Return(login.user_id)
            /\ CountOp(login.trace, "register_user") = 0
            /\ login.localpart \in DOMAIN accounts
            /\ accounts[login.localpart].admin # login.epcon_data.is_staff
            /\ accounts[login.localpart].bind_emails # << login.epcon_data.email >>
            /\ accounts[login.localpart].default_display_name #
                  login.epcon_data.first_name \o << " " >> \o login.epcon_data.last_name

(***************************************************************************)
(* C23.  For a profile that is not staff, get_rooms_for_user returns the   *)
(* Speaker group if is_speaker, with the Default group if a ticket has     *)
(* fare code TRPC or TRPP, and with the Default and Conference groups if   *)
(* a ticket has fare code TRCC, TRCP, TRSC or TRSP; nothing else, and      *)
(* never the Staff group.                                                  *)
(***************************************************************************)
C23_NonStaffRoomsFollowTheTable ==
    policy.pc = "out" /\ ~policy.epcon_data.is_staff
       => LET codes == FareCodesOf(policy.epcon_data)
              sprint == codes \cap { "TRPC", "TRPP" } # {}
              combined == codes \cap { "TRCC", "TRCP", "TRSC", "TRSP" } # {}
          IN  /\ policy.rooms =
                    (IF policy.epcon_data.is_speaker
                     THEN { "#speakers:europython.eu" } ELSE {})
                    \cup (IF sprint \/ combined
                          THEN { "#info-desk:europython.eu", "#sprints:europython.eu",
                                 "#coc:europython.eu" }
                          ELSE {})
                    \cup (IF combined
                          THEN { "#track1:europython.eu", "#track2:europython.eu",
                                 "#track3:europython.eu", "#track4:europython.eu",
                                 "#hallway:europython.eu" }
                          ELSE {})
              /\ "#staff:europython.eu" \notin policy.rooms

\* A profile with neither flag and tickets of an unknown fare code only: the
\* function returned the empty set.
C23_Witness ==
    /\ policy.pc = "out"
    /\ ~policy.epcon_data.is_staff /\ ~policy.epcon_data.is_speaker
    /\ Len(policy.epcon_data.tickets) = 2
    /\ FareCodesOf(policy.epcon_data) = { "TRXX" }
    /\ policy.rooms = {}

(***************************************************************************)
(* bin/admin_tool.py, set_user_room_power_level: two invocations for one   *)
(* room, each a GET of the room's m.room.power_levels, a PUT of the whole  *)
(* content with one entry set, and a GET to verify.  Nothing orders the    *)
(* requests of two invocations (two runs of the tool).                     *)
(***************************************************************************)
Settings == { 1, 2 }

LevelsRoom == "!r1:europython.eu"

\* The users of the room: the two the invocations are for, and a third.
LevelUsers == ToolUsers \cup { "@cy:europython.eu" }

\* The contents of m.room.power_levels: the users mapping and other keys.
Contents ==
    { [ users |-> u, users_default |-> d, ban |-> 50 ] :
        u \in UNION { [ U -> PowerLevels ] : U \in SUBSET LevelUsers },
        d \in { 0, 50 } }

KeyError == [ type |-> "KeyError" ]
AssertionError == [ type |-> "AssertionError" ]

InitSetting ==
    /\ NoLogins
    /\ policy = NoPolicy
    /\ run = NoRun
    /\ \E content \in Contents : power_levels = (LevelsRoom :> content)
    /\ \E who \in [ Settings -> ToolUsers ], level \in [ Settings -> PowerLevels ] :
         setting = [ c \in Settings |->
                       [ pc |-> "get", user_id |-> who[c], level |-> level[c],
                         room_id |-> LevelsRoom, room_levels |-> None,
                         result |-> Pending ] ]

EndSetting(c, result) ==
    [ setting EXCEPT ![c] = [ @ EXCEPT !.pc = "done", !.result = result ] ]

\* Seeded fault: the content sent holds the entry of that user only.
PutContentOnlyThatUser(room_levels, user_id, level) ==
    [ room_levels EXCEPT !.users = (user_id :> level) ]

\* room_levels['users'][user_id] = level, and the body of the PUT
\* (lines 189, 192-195).
PutContent(room_levels, user_id, level) ==
    [ room_levels EXCEPT !.users = (user_id :> level) @@ @ ]

\* get_room_power_levels(user_id=None) (lines 184-188, 151-168).  The GET is
\* not checked: an error body has no 'users' and line 189 raises KeyError.
GetRoomPowerLevels(c) ==
    /\ setting[c].pc = "get"
    /\ \/ setting' = EndSetting(c, Raise(KeyError))
       \/ setting' = [ setting EXCEPT ![c] =
                         [ @ EXCEPT !.pc = "put",
                                    !.room_levels = power_levels[setting[c].room_id] ] ]
    /\ UNCHANGED << world, faults, lg, history, policy, power_levels, run >>

\* The PUT and raise_for_status (lines 191-196).
PutRoomPowerLevels(c) ==
    /\ setting[c].pc = "put"
    /\ \/ /\ setting' = EndSetting(c, Raise(HTTPError))
          /\ UNCHANGED power_levels
       \/ /\ power_levels' =
                [ power_levels EXCEPT ![setting[c].room_id] =
                    PutContent(setting[c].room_levels, setting[c].user_id,
                               setting[c].level) ]
          /\ setting' = [ setting EXCEPT ![c] = [ @ EXCEPT !.pc = "check" ] ]
    /\ UNCHANGED << world, faults, lg, history, policy, run >>

\* The level read back and the assert (lines 198-200).
CheckNewLevel(c) ==
    /\ setting[c].pc = "check"
    /\ LET users == power_levels[setting[c].room_id].users
           user_id == setting[c].user_id
       IN  setting' = IF user_id \in DOMAIN users /\ users[user_id] = setting[c].level
                      THEN EndSetting(c, Return(setting[c].level))
                      ELSE EndSetting(c, Raise(AssertionError))
    /\ UNCHANGED << world, faults, lg, history, policy, power_levels, run >>

NextSetting ==
    \E c \in Settings : GetRoomPowerLevels(c) \/ PutRoomPowerLevels(c) \/ CheckNewLevel(c)

SpecSetting == InitSetting /\ [][NextSetting]_vars

\* The step is the PUT of invocation c.
Puts(c) == setting[c].pc = "put" /\ setting'[c].pc = "check"

\* But for the entry of user_id, the content after the step is the given one.
OnlyEntryDiffers(content, user_id) ==
    LET after == power_levels'[LevelsRoom]
    IN  /\ after.users_default = content.users_default
        /\ after.ban = content.ban
        /\ DOMAIN after.users \ { user_id } = DOMAIN content.users \ { user_id }
        /\ \A u \in DOMAIN content.users \ { user_id } :
              u \in DOMAIN after.users /\ after.users[u] = content.users[u]

(***************************************************************************)
(* C24.  As claimed: the PUT of an invocation changes the entry of its     *)
(* user only, whatever another invocation does meanwhile.                  *)
(***************************************************************************)
C24_OnlyThatEntryChanges ==
    [][ \A c \in Settings :
           Puts(c) => OnlyEntryDiffers(power_levels[LevelsRoom], setting[c].user_id) ]_vars

(***************************************************************************)
(* C24, amended.  The PUT of an invocation sets the entry of its user and  *)
(* leaves every other entry and key as the invocation read them: as they   *)
(* were before the step when nothing was written since the read.  No       *)
(* other step changes the power levels.                                    *)
(***************************************************************************)
C24_OnlyThatEntryDiffersFromTheRead ==
    [][ /\ \A c \in Settings :
              Puts(c) =>
                 /\ setting[c].user_id \in DOMAIN power_levels'[LevelsRoom].users
                 /\ power_levels'[LevelsRoom].users[setting[c].user_id] = setting[c].level
                 /\ OnlyEntryDiffers(setting[c].room_levels, setting[c].user_id)
                 /\ power_levels[LevelsRoom] = setting[c].room_levels
                       => OnlyEntryDiffers(power_levels[LevelsRoom], setting[c].user_id)
        /\ (\A c \in Settings : ~Puts(c)) => power_levels' = power_levels ]_vars

\* Two invocations for different users returned, one after the other: both
\* levels are set and the third user's entry is there.
C24_Witness ==
    /\ setting # << >>
    /\ \A c \in Settings : setting[c].pc = "done" /\ setting[c].result.kind = "return"
    /\ setting[1].user_id # setting[2].user_id
    /\ setting[2].room_levels.users =
          (setting[1].user_id :> setting[1].level) @@ setting[1].room_levels.users
    /\ \A c \in Settings :
          /\ setting[c].user_id \notin DOMAIN setting[1].room_levels.users
          /\ power_levels[LevelsRoom].users[setting[c].user_id] = setting[c].level
    /\ "@cy:europython.eu" \in DOMAIN power_levels[LevelsRoom].users

\* The membership fetch of the login failed (line 176).
FetchFailed(login) == Calls(login.trace, "get_rooms_for_user", FALSE) # {}

\* The check_user_exists of create_epcon_rooms failed (line 94): a failed
\* check_user_exists after the one of _get_or_create_userid.
BootstrapCheckFailed(login) ==
    \E k \in 1..Len(login.trace) :
        /\ login.trace[k] = Op("check_user_exists", None, admin_user, FALSE)
        /\ \E j \in 1..(k - 1) : login.trace[j].op = "check_user_exists"

DirectoryAfterBootstrap == [ a \in Range(AliasOrder) |-> RoomIdFor(a) ]

(***************************************************************************)
(* C26.  Every alias get_rooms_for_user returns is an alias of             *)
(* DEFAULT_ROOMS, so it is in the directory once the bootstrap has created *)
(* every room; #announcements is in DEFAULT_ROOMS and is never returned.   *)
(***************************************************************************)
C26_TargetsAreInTheTopology ==
    policy.pc = "out"
       => /\ policy.rooms \subseteq { DEFAULT_ROOMS[k][1] : k \in 1..Len(DEFAULT_ROOMS) }
          /\ \A a \in policy.rooms :
                a \in DOMAIN DirectoryAfterBootstrap /\ DirectoryAfterBootstrap[a] # None
          /\ "#announcements:europython.eu" \in
                { DEFAULT_ROOMS[k][1] : k \in 1..Len(DEFAULT_ROOMS) }
          /\ "#announcements:europython.eu" \notin policy.rooms

\* The largest target set, that of a staff member: every room of
\* DEFAULT_ROOMS but #announcements.
C26_Witness ==
    /\ policy.pc = "out"
    /\ policy.epcon_data.is_staff
    /\ policy.rooms = { DEFAULT_ROOMS[k][1] : k \in 1..Len(DEFAULT_ROOMS) }
                         \ { "#announcements:europython.eu" }

\* The login returned an account id.
Returned(login) ==
    /\ login.pc = "done"
    /\ login.result.kind = "return"
    /\ login.result.value # None

\* The three fields of a profile get_local_part reads.
NamesOf(epcon_data) ==
    [ first_name |-> epcon_data.first_name, last_name |-> epcon_data.last_name,
      username |-> epcon_data.username ]

(***************************************************************************)
(* C27.  The account id a login returns is computed from first_name,       *)
(* last_name and username alone: the two people named Jose Diaz with       *)
(* username jd1, who differ in the case and the accents of their names and *)
(* in their email, get @jose.diaz.jd1:europython.eu whatever is_staff,     *)
(* is_speaker and the tickets are, and the account of that id exists,      *)
(* whatever email is bound to it.                                          *)
(***************************************************************************)
C27_IdentifierDependsOnNamesOnly ==
    \A p \in Logins :
        Returned(lg[p])
           => /\ lg[p].result.value =
                    get_qualified_user_id(get_local_part(NamesOf(lg[p].epcon_data)))
              /\ lg[p].epcon_data.username = << "j", "d", "1" >>
                    => lg[p].result.value =
                          << "@", "j", "o", "s", "e", ".", "d", "i", "a", "z", ".",
                             "j", "d", "1", ":", "europython.eu" >>
              /\ lg[p].epcon_data.username = << "m" >>
                    => lg[p].result.value =
                          << "@", "a", ".", "d", ".", "m", ":", "europython.eu" >>
              /\ check_user_exists(lg[p].result.value)

\* A login returned the id the login before it returned, without registering
\* an account, and the email of its profile is not the one bound to the
\* account.
C27_Witness ==
    \E p \in Logins :
        /\ Returned(lg[p])
        /\ prev.user_id = lg[p].result.value
        /\ CountOp(lg[p].trace, "register_user") = 0
        /\ lg[p].epcon_data.email = "jd@example.org"
        /\ accounts[lg[p].localpart].bind_emails = << "jose@example.com" >>

\* The rooms of the target aliases of a login that are in the directory.
TargetRooms(login) == { directory[a] : a \in TargetOf(login) \cap DOMAIN directory }

\* The rooms a login failed on: the alias lookup, the invite or the join.
FailedRooms(login) ==
    LookupFailed(login)
    \cup { c.arg : c \in Calls(login.trace, "invite", FALSE) \cup Calls(login.trace, "join", FALSE) }

\* No call of the login failed.
Clean(login) == \A k \in 1..Len(login.trace) : login.trace[k].ok

\* The account of the login is a member of every target room.
FullyJoined(login) ==
    /\ TargetOf(login) \subseteq DOMAIN directory
    /\ \A r \in TargetRooms(login) : << login.user_id, r >> \in joined

====
